---- MODULE Spec2Model ----
(***************************************************************************)
(* The Adu Shertu rules engine (src/game_state.py, class AduShertuGame),   *)
(* as a state machine: one action per public method of the engine, the     *)
(* private helpers as operators.                                           *)
(*                                                                         *)
(* A card is a number 0..23: card = 6 * suit + rank, with the suits and    *)
(* the ranks numbered in the order of the enums Suit and Rank, which is    *)
(* also the order in which _create_deck builds the deck.  None is -1.      *)
(* A Python list is a sequence (1-based here, 0-based there); list.pop()   *)
(* takes the LAST element.                                                 *)
(***************************************************************************)
EXTENDS Integers, Sequences, FiniteSets, TLC

\* ---------------------------------------------------------------- domain
None == -1

HEARTS == 0
DIAMONDS == 1
CLUBS == 2
SPADES == 3
Suits == {HEARTS, DIAMONDS, CLUBS, SPADES}

NINE == 0
TEN == 1
JACK == 2
QUEEN == 3
KING == 4
ACE == 5
Ranks == {NINE, TEN, JACK, QUEEN, KING, ACE}

NumRanks == 6
NumSeats == 6
DeckSize == 24
Seats == 0 .. (NumSeats - 1)
Teams == {0, 1}

Card(s, r) == NumRanks * s + r
SuitOf(c) == c \div NumRanks
RankOf(c) == c % NumRanks

\* players[i]["team"], set by add_player as len(players) % 2
Team(p) == p % 2

\* GamePhase values
WAITING == "waiting"
STAGE1_TRUMP_CALLING == "stage1_trump_calling"
STAGE1_CHALLENGING == "stage1_challenging"
STAGE2_TRUMP_SELECTION == "stage2_trump_selection"
STAGE2_CHALLENGING == "stage2_challenging"
PLAYING_HAND == "playing_hand"
GAME_OVER == "game_over"

\* ---------------------------------------------------------------- sequences
Range(s) == {s[i] : i \in 1 .. Len(s)}

\* list.pop(): the list without its last element
ButLast(s) == SubSeq(s, 1, Len(s) - 1)
Last(s) == s[Len(s)]

\* a faulty list.pop(i): the list cut off at k ("del s[k:]" for "del s[k]")
TruncateAt(s, k) == SubSeq(s, 1, k - 1)

\* list.pop(i) / list.remove(x): the list without its element at 1-based k
RemoveAt(s, k) == SubSeq(s, 1, k - 1) \o SubSeq(s, k + 1, Len(s))

\* index of the first occurrence of x in s (x occurs in s)
IndexOf(s, x) == CHOOSE k \in 1 .. Len(s) : s[k] = x /\ \A j \in 1 .. (k - 1) : s[j] # x

Remove(s, x) == RemoveAt(s, IndexOf(s, x))

\* [c for c in hand if c.suit == suit and c.rank != rank], in order (rank None: any rank)
RECURSIVE Matching(_, _, _)
Matching(hand, suit, rank) ==
    IF hand = <<>> THEN <<>>
    ELSE IF SuitOf(Head(hand)) = suit /\ RankOf(Head(hand)) # rank
    THEN <<Head(hand)>> \o Matching(Tail(hand), suit, rank)
    ELSE Matching(Tail(hand), suit, rank)

Min(a, b) == IF a < b THEN a ELSE b
Max(a, b) == IF a > b THEN a ELSE b

\* ---------------------------------------------------------------- state
VARIABLES
    nplayers,               \* len(self.players); seat i is players[i], 0-based
    cards,                  \* cards[i] = players[i]["cards"]
    phase,
    deck,
    discarded_cards,
    dealer_index,
    current_player_index,
    trump_suit,
    trump_caller_index,
    joint_called,
    joint_caller_index,
    team_okalu,
    current_game_okalu,
    base_okalu,
    challenge_multiplier,
    last_challenger_team,
    pending_challenge,
    challenge_type,         \* "none" for None, else the challenge word
    current_hand_number,
    current_hand_cards,     \* sequence of <<player_index, card>>
    leading_suit,
    hands_won,
    points_scored,
    jack_trump_team,
    stage1_round,
    trump_calling_index,
    ready_players,
    result,                 \* what the last call returned (or raised)
    strays,                 \* stray calls so far
    rounds,                 \* rounds started so far
    settlements,            \* changes of team_okalu since the round was started
    limits                  \* the profile of this run

tableVars == <<nplayers, cards, deck, discarded_cards>>
callVars == <<dealer_index, trump_suit, trump_caller_index, joint_called,
              joint_caller_index, stage1_round, trump_calling_index>>
okaluVars == <<team_okalu, current_game_okalu, base_okalu>>
challengeVars == <<challenge_multiplier, last_challenger_team, pending_challenge,
                   challenge_type>>
handVars == <<current_player_index, current_hand_number, current_hand_cards,
              leading_suit, hands_won, points_scored, jack_trump_team>>

\* everything the engine stores
gameVars == <<tableVars, phase, callVars, okaluVars, challengeVars, handVars,
              ready_players>>
vars == <<gameVars, result, strays, rounds, settlements, limits>>

\* ---------------------------------------------------------------- results
\* {"success": True, ...}
Ok(op, what) == [op |-> op, success |-> TRUE, raised |-> FALSE, message |-> what]
\* {"success": False, "message": ...}
Fail(op, why) == [op |-> op, success |-> FALSE, raised |-> FALSE, message |-> why]
\* an exception that leaves the method
Raise(op, exc) == [op |-> op, success |-> FALSE, raised |-> TRUE, message |-> exc]

\* ---------------------------------------------------------------- deck and dealing
\* _create_deck: suit by suit, rank by rank
create_deck == [i \in 1 .. DeckSize |-> i - 1]

\* the k cards that k calls of deck.pop() return, in the order they are appended
TakeTop(d, k) == [i \in 1 .. k |-> d[Len(d) - i + 1]]

\* "for _ in range(n): if self.deck: cards.append(self.deck.pop())" for one player
GiveCards(st, p, n) ==
    LET k == Min(Max(n, 0), Len(st.deck))
    IN  [deck |-> SubSeq(st.deck, 1, Len(st.deck) - k),
         cards |-> [st.cards EXCEPT ![p] = @ \o TakeTop(st.deck, k)]]

\* _deal_stage1: 2 cards to each player, from the dealer on (i = 0 .. 5)
RECURSIVE deal_stage1_from(_, _, _)
deal_stage1_from(st, dealer, i) ==
    IF i > 5 THEN st
    ELSE deal_stage1_from(GiveCards(st, (dealer + i) % 6, 2), dealer, i + 1)

\* a faulty first deal: the dealer is passed over
deal_stage1_past_dealer(d, hands, dealer) ==
    deal_stage1_from([deck |-> d, cards |-> hands], dealer, 1)

deal_stage1(d, hands, dealer) ==
    deal_stage1_from([deck |-> d, cards |-> hands], dealer, 0)

\* the dealing loop of _deal_stage2: top every hand up to 4, from the seat after
\* the dealer on (i = 1 .. 6)
RECURSIVE deal_stage2_from(_, _, _)
deal_stage2_from(st, dealer, i) ==
    IF i > 6 THEN st
    ELSE LET p == (dealer + i) % 6
         IN  deal_stage2_from(GiveCards(st, p, 4 - Len(st.cards[p])), dealer, i + 1)

deal_stage2_cards(d, hands, dealer) ==
    deal_stage2_from([deck |-> d, cards |-> hands], dealer, 1)

\* _identify_jack_trump_team: the new value of jack_trump_team
identify_jack_trump_team(trump, jack, hands) ==
    IF trump = None THEN jack
    ELSE IF jack # None THEN jack
    ELSE LET holders == {p \in Seats : Card(trump, JACK) \in Range(hands[p])}
         IN  IF holders = {} THEN jack
             ELSE Team(CHOOSE p \in holders : \A q \in holders : p <= q)

\* a faulty _calculate_base_okalu: the distance taken from seat 0, not the dealer
base_okalu_by_seat(caller, dealer) == <<6, 5, 4, 3, 4, 5>>[(caller % 6) + 1]

\* _calculate_base_okalu
okalu_map == <<6, 5, 4, 3, 4, 5>>
calculate_base_okalu(caller, dealer) == okalu_map[((caller - dealer) % 6) + 1]

\* ---------------------------------------------------------------- card order and points
\* _get_trump_rank: 10 < Q < K < A < 9 < J
trump_hierarchy == [r \in Ranks |->
    CASE r = TEN -> 1 [] r = QUEEN -> 2 [] r = KING -> 3
      [] r = ACE -> 4 [] r = NINE -> 5 [] r = JACK -> 6]
get_trump_rank(r) == trump_hierarchy[r]

\* _get_non_trump_rank: 9 < 10 < J < Q < K < A
non_trump_hierarchy == [r \in Ranks |->
    CASE r = NINE -> 1 [] r = TEN -> 2 [] r = JACK -> 3
      [] r = QUEEN -> 4 [] r = KING -> 5 [] r = ACE -> 6]
get_non_trump_rank(r) == non_trump_hierarchy[r]

trump_points == [r \in Ranks |->
    CASE r = NINE -> 14 [] r = TEN -> 10 [] r = JACK -> 20
      [] r = QUEEN -> 2 [] r = KING -> 3 [] r = ACE -> 11]
non_trump_points == [r \in Ranks |->
    CASE r = NINE -> 0 [] r = TEN -> 10 [] r = JACK -> 1
      [] r = QUEEN -> 2 [] r = KING -> 3 [] r = ACE -> 11]

\* a faulty valuation: every card valued as a card of a plain suit
plain_points_for_all(c, trump) == non_trump_points[RankOf(c)]

\* _get_card_points
get_card_points(c, trump) ==
    IF SuitOf(c) = trump THEN trump_points[RankOf(c)] ELSE non_trump_points[RankOf(c)]

\* a faulty comparison: trumps compared in the order of the plain suits
compare_in_plain_order(c1, c2) ==
    IF get_non_trump_rank(RankOf(c1)) > get_non_trump_rank(RankOf(c2)) THEN 1
    ELSE IF get_non_trump_rank(RankOf(c1)) < get_non_trump_rank(RankOf(c2)) THEN -1
    ELSE 0

\* _compare_trump_cards
compare_trump_cards(c1, c2) ==
    IF get_trump_rank(RankOf(c1)) > get_trump_rank(RankOf(c2)) THEN 1
    ELSE IF get_trump_rank(RankOf(c1)) < get_trump_rank(RankOf(c2)) THEN -1
    ELSE 0

\* the plays of a trick whose card is of suit s, in the order played
RECURSIVE PlaysOfSuit(_, _)
PlaysOfSuit(trick, s) ==
    IF trick = <<>> THEN <<>>
    ELSE IF SuitOf(Head(trick)[2]) = s THEN <<Head(trick)>> \o PlaysOfSuit(Tail(trick), s)
    ELSE PlaysOfSuit(Tail(trick), s)

\* max(plays, key=_get_trump_rank of the card's rank): the first play of the
\* largest key
MaxTrumpPlay(plays) ==
    LET key(i) == get_trump_rank(RankOf(plays[i][2]))
        k == CHOOSE i \in 1 .. Len(plays) :
                /\ \A j \in 1 .. Len(plays) : key(j) <= key(i)
                /\ \A j \in 1 .. (i - 1) : key(j) < key(i)
    IN  plays[k]

\* max(plays, key=_get_non_trump_rank of the card's rank)
MaxLeadingPlay(plays) ==
    LET key(i) == get_non_trump_rank(RankOf(plays[i][2]))
        k == CHOOSE i \in 1 .. Len(plays) :
                /\ \A j \in 1 .. Len(plays) : key(j) <= key(i)
                /\ \A j \in 1 .. (i - 1) : key(j) < key(i)
    IN  plays[k]

\* _get_highest_trump_in_hand: the highest trump in the trick, None if there is none
get_highest_trump_in_hand(trick, trump) ==
    IF trump = None THEN None
    ELSE IF PlaysOfSuit(trick, trump) = <<>> THEN None
    ELSE MaxTrumpPlay(PlaysOfSuit(trick, trump))[2]

\* a faulty validation: a lower trump is turned down even from a hand of trumps only
validate_without_trump_only_hand(hand, card, trick, lead, trump) ==
    LET has_leading_suit == \E c \in Range(hand) : SuitOf(c) = lead
        highest_trump == get_highest_trump_in_hand(trick, trump)
    IN  IF trick = <<>> THEN TRUE
        ELSE IF has_leading_suit /\ SuitOf(card) # lead THEN
            IF SuitOf(card) = trump /\ trump # None THEN
                highest_trump = None \/ compare_trump_cards(card, highest_trump) > 0
            ELSE FALSE
        ELSE IF SuitOf(card) # lead THEN
            ~(/\ SuitOf(card) = trump /\ trump # None
              /\ highest_trump # None
              /\ compare_trump_cards(card, highest_trump) < 0)
        ELSE TRUE

\* _validate_card_play: TRUE when the card may be played
validate_card_play(hand, card, trick, lead, trump) ==
    LET has_leading_suit == \E c \in Range(hand) : SuitOf(c) = lead
        highest_trump == get_highest_trump_in_hand(trick, trump)
    IN  IF trick = <<>> THEN TRUE
        ELSE IF has_leading_suit /\ SuitOf(card) # lead THEN
            IF SuitOf(card) = trump /\ trump # None THEN
                highest_trump = None \/ compare_trump_cards(card, highest_trump) > 0
            ELSE FALSE
        ELSE IF SuitOf(card) # lead THEN
            IF /\ SuitOf(card) = trump /\ trump # None
               /\ highest_trump # None
               /\ compare_trump_cards(card, highest_trump) < 0
            THEN \A c \in Range(hand) : SuitOf(c) = trump
            ELSE TRUE
        ELSE TRUE

\* a faulty resolution: the trumps of the trick compared in the order of the plain suits
hand_winner_in_plain_order(trick, lead, trump) ==
    IF PlaysOfSuit(trick, trump) # <<>>
    THEN MaxLeadingPlay(PlaysOfSuit(trick, trump))[1]
    ELSE IF PlaysOfSuit(trick, lead) # <<>>
    THEN MaxLeadingPlay(PlaysOfSuit(trick, lead))[1]
    ELSE None

\* _determine_hand_winner: the winning seat; None where max() of an empty list raises
determine_hand_winner(trick, lead, trump) ==
    IF PlaysOfSuit(trick, trump) # <<>>
    THEN MaxTrumpPlay(PlaysOfSuit(trick, trump))[1]
    ELSE IF PlaysOfSuit(trick, lead) # <<>>
    THEN MaxLeadingPlay(PlaysOfSuit(trick, lead))[1]
    ELSE None

\* sum(self._get_card_points(card) for _, card in self.current_hand_cards)
RECURSIVE TrickPoints(_, _)
TrickPoints(trick, trump) ==
    IF trick = <<>> THEN 0
    ELSE get_card_points(Head(trick)[2], trump) + TrickPoints(Tail(trick), trump)

\* a faulty settlement: winner and loser taken for each other
end_game_okalu_swapped(okalu, stake, winning_team) ==
    LET reduction == IF okalu[1 - winning_team] > 0
                     THEN Min(okalu[1 - winning_team], stake) ELSE 0
    IN  [t \in Teams |->
            IF t = winning_team THEN okalu[t] + (stake - reduction)
            ELSE okalu[t] - reduction]

\* a faulty settlement: the stake is taken off the winner's okalu, whatever it is
end_game_okalu_unclamped(okalu, stake, winning_team) ==
    [t \in Teams |-> IF t = winning_team THEN okalu[t] - stake ELSE okalu[t]]

\* a faulty settlement: the whole stake goes to the loser, the winner's debt stays
end_game_okalu_on_loser(okalu, stake, winning_team) ==
    [t \in Teams |-> IF t = winning_team THEN okalu[t] ELSE okalu[t] + stake]

\* _end_game: the ledger after the round is settled for winning_team
end_game_okalu(okalu, stake, winning_team) ==
    LET losing_team == 1 - winning_team
        reduction == IF okalu[winning_team] > 0 THEN Min(okalu[winning_team], stake) ELSE 0
    IN  [t \in Teams |->
            IF t = winning_team THEN okalu[t] - reduction
            ELSE okalu[t] + (stake - reduction)]

\* ---------------------------------------------------------------- bounds
MaxStray == 1           \* strays in a session
MaxChallenges == 4      \* challenges are issued while the multiplier is below 2^MaxChallenges
MaxRounds == 2          \* rounds started in a session
MaxCardIndex == 0       \* card_index ranges over 0 .. MaxCardIndex

\* late_ready: the players keep signalling readiness after the stage-2 deal
Profiles ==
    { [strays |-> MaxStray, challenges |-> 1, rounds |-> 1, late_ready |-> FALSE],
      [strays |-> 0, challenges |-> MaxChallenges, rounds |-> 1, late_ready |-> FALSE],
      [strays |-> 0, challenges |-> 1, rounds |-> MaxRounds, late_ready |-> FALSE],
      [strays |-> 0, challenges |-> 1, rounds |-> 1, late_ready |-> TRUE] }

\* ---------------------------------------------------------------- construction
\* __init__
Init ==
    /\ nplayers = 0
    /\ cards = [p \in Seats |-> <<>>]
    /\ phase = WAITING
    /\ deck = <<>>
    /\ discarded_cards = <<>>
    /\ dealer_index = None
    /\ current_player_index = None
    /\ trump_suit = None
    /\ trump_caller_index = None
    /\ joint_called = FALSE
    /\ joint_caller_index = None
    /\ team_okalu = [t \in Teams |-> 0]
    /\ current_game_okalu = 0
    /\ base_okalu = 0
    /\ challenge_multiplier = 1
    /\ last_challenger_team = None
    /\ pending_challenge = FALSE
    /\ challenge_type = "none"
    /\ current_hand_number = 0
    /\ current_hand_cards = <<>>
    /\ leading_suit = None
    /\ hands_won = [t \in Teams |-> 0]
    /\ points_scored = [t \in Teams |-> 0]
    /\ jack_trump_team = None
    /\ stage1_round = 1
    /\ trump_calling_index = 0
    /\ ready_players = <<>>
    /\ result = Ok("init", "")
    /\ strays = 0
    /\ rounds = 0
    /\ settlements = 0
    /\ limits \in Profiles

\* ---------------------------------------------------------------- operations
add_player ==
    IF nplayers >= 6
    THEN /\ result' = Fail("add_player", "Game is full")
         /\ UNCHANGED gameVars
    ELSE /\ nplayers' = nplayers + 1
         /\ cards' = [cards EXCEPT ![nplayers] = <<>>]
         /\ result' = Ok("add_player", "")
         /\ UNCHANGED <<deck, discarded_cards, phase, callVars, okaluVars,
                        challengeVars, handVars, ready_players>>

\* a faulty start of the calling cycle: at the dealer
calling_start_at_dealer(dealer) == dealer % 6

\* a faulty start of the calling cycle: two seats to the left of the dealer
calling_start_two_left(dealer) == (dealer + 2) % 6

\* "(self.dealer_index + 1) % 6": the seat to the left of the dealer, where the
\* calling cycle starts
calling_start(dealer) == (dealer + 1) % 6

\* a faulty choice of dealer: a seat of the team that does not owe
dealer_of_other_team(okalu) ==
    IF okalu[0] > 0 THEN {p \in Seats : Team(p) = 1}
    ELSE IF okalu[1] > 0 THEN {p \in Seats : Team(p) = 0}
    ELSE Seats

\* the seats random.choice / random.randint can pick as dealer
DealerChoices(okalu) ==
    IF okalu[0] > 0 THEN {p \in Seats : Team(p) = 0}
    ELSE IF okalu[1] > 0 THEN {p \in Seats : Team(p) = 1}
    ELSE Seats

\* start_game, with the dealer d and the deck shuffled (a permutation of the new
\* deck) that random yields
start_game(d, shuffled) ==
    IF nplayers # 6
    THEN /\ result' = Raise("start_game", "ValueError")
         /\ UNCHANGED gameVars
    ELSE LET dealt == deal_stage1(shuffled, [p \in Seats |-> <<>>], d)
         IN  /\ d \in DealerChoices(team_okalu)
             /\ Range(shuffled) = Range(create_deck)
             /\ dealer_index' = d
             /\ deck' = dealt.deck
             /\ cards' = dealt.cards
             /\ discarded_cards' = <<>>
             /\ trump_suit' = None
             /\ trump_caller_index' = None
             /\ joint_called' = FALSE
             /\ joint_caller_index' = None
             /\ challenge_multiplier' = 1
             /\ last_challenger_team' = None
             /\ pending_challenge' = FALSE
             /\ challenge_type' = "none"
             /\ current_hand_number' = 0
             /\ current_hand_cards' = <<>>
             /\ leading_suit' = None
             /\ hands_won' = [t \in Teams |-> 0]
             /\ points_scored' = [t \in Teams |-> 0]
             /\ jack_trump_team' = None
             /\ stage1_round' = 1
             /\ phase' = STAGE1_TRUMP_CALLING
             /\ trump_calling_index' = calling_start(d)
             /\ result' = Ok("start_game", "")
             /\ UNCHANGED <<nplayers, okaluVars, current_player_index, ready_players>>

attempt_trump_call(p, suit) ==
    LET matching_cards == Matching(cards[p], suit, None)
    IN  IF phase # STAGE1_TRUMP_CALLING
        THEN /\ result' = Fail("attempt_trump_call", "Not in trump calling phase")
             /\ UNCHANGED gameVars
        ELSE IF matching_cards = <<>>
        THEN /\ result' = Fail("attempt_trump_call", "You don't have that suit")
             /\ UNCHANGED gameVars
        ELSE IF Len(matching_cards) > 1
        THEN /\ result' = Ok("attempt_trump_call", "requires_card_choice")
             /\ UNCHANGED gameVars
        ELSE /\ trump_suit' = suit
             /\ trump_caller_index' = p
             /\ base_okalu' = calculate_base_okalu(p, dealer_index)
             /\ current_game_okalu' = calculate_base_okalu(p, dealer_index)
             /\ phase' = STAGE1_CHALLENGING
             /\ result' = Ok("attempt_trump_call", "trump_suit")
             /\ UNCHANGED <<tableVars, dealer_index, joint_called, joint_caller_index,
                            stage1_round, trump_calling_index, team_okalu,
                            challengeVars, handVars, ready_players>>

attempt_joint_call(p) ==
    IF phase # STAGE1_TRUMP_CALLING
    THEN /\ result' = Fail("attempt_joint_call", "Not in trump calling phase")
         /\ UNCHANGED gameVars
    ELSE IF p # trump_calling_index
    THEN /\ result' = Fail("attempt_joint_call", "Not your turn to call trump")
         /\ UNCHANGED gameVars
    ELSE IF Len(cards[p]) # 2 \/ RankOf(cards[p][1]) # RankOf(cards[p][2])
    THEN /\ result' = Fail("attempt_joint_call", "You need a pair of the same rank for Joint")
         /\ UNCHANGED gameVars
    ELSE LET dealt == deal_stage2_cards(deck, cards, dealer_index)
         IN  /\ joint_called' = TRUE
             /\ trump_caller_index' = p
             /\ joint_caller_index' = p
             /\ base_okalu' = calculate_base_okalu(p, dealer_index)
             /\ current_game_okalu' = calculate_base_okalu(p, dealer_index) * 2
             /\ challenge_multiplier' = 2
             /\ deck' = dealt.deck
             /\ cards' = dealt.cards
             /\ jack_trump_team' = identify_jack_trump_team(trump_suit, jack_trump_team, dealt.cards)
             /\ phase' = STAGE2_TRUMP_SELECTION
             /\ result' = Ok("attempt_joint_call", "joint_called")
             /\ UNCHANGED <<nplayers, discarded_cards, dealer_index, trump_suit,
                            stage1_round, trump_calling_index, team_okalu,
                            last_challenger_team, pending_challenge, challenge_type,
                            current_player_index, current_hand_number,
                            current_hand_cards, leading_suit, hands_won, points_scored,
                            ready_players>>

\* [c for p in self.players for c in p["cards"]]
AllHands(hands) == hands[0] \o hands[1] \o hands[2] \o hands[3] \o hands[4] \o hands[5]

pass_trump_call(p) ==
    LET next == (trump_calling_index + 1) % 6
        start_index == calling_start(dealer_index)
        dealt == deal_stage1(deck, [q \in Seats |-> <<>>], dealer_index)
    IN  IF p # trump_calling_index
        THEN /\ result' = Fail("pass_trump_call", "Not your turn")
             /\ UNCHANGED gameVars
        ELSE IF dealer_index = None
        THEN \* (None + 1) % 6 raises after the turn was moved
             /\ trump_calling_index' = next
             /\ result' = Raise("pass_trump_call", "TypeError")
             /\ UNCHANGED <<tableVars, phase, dealer_index, trump_suit, trump_caller_index,
                            joint_called, joint_caller_index, stage1_round, okaluVars,
                            challengeVars, handVars, ready_players>>
        ELSE IF next = start_index /\ stage1_round = 1
        THEN /\ stage1_round' = 2
             /\ discarded_cards' = discarded_cards \o AllHands(cards)
             /\ cards' = dealt.cards
             /\ deck' = dealt.deck
             /\ trump_calling_index' = calling_start(dealer_index)
             /\ result' = Ok("pass_trump_call", "reshuffled")
             /\ UNCHANGED <<nplayers, phase, dealer_index, trump_suit, trump_caller_index,
                            joint_called, joint_caller_index, okaluVars, challengeVars,
                            handVars, ready_players>>
        ELSE IF next = start_index
        THEN /\ trump_calling_index' = next
             /\ phase' = GAME_OVER
             /\ result' = Fail("pass_trump_call", "Game ended prematurely")
             /\ UNCHANGED <<tableVars, dealer_index, trump_suit, trump_caller_index,
                            joint_called, joint_caller_index, stage1_round, okaluVars,
                            challengeVars, handVars, ready_players>>
        ELSE /\ trump_calling_index' = next
             /\ result' = Ok("pass_trump_call", "next_player")
             /\ UNCHANGED <<tableVars, phase, dealer_index, trump_suit, trump_caller_index,
                            joint_called, joint_caller_index, stage1_round, okaluVars,
                            challengeVars, handVars, ready_players>>

\* the replacement loop of replace_same_suit_card and finalize_trump_call_selection:
\* pop until a card of another suit comes; kept is None when the deck runs out first
RECURSIVE DrawReplacement(_, _, _)
DrawReplacement(d, suit, shown) ==
    IF d = <<>> THEN [deck |-> d, discards |-> shown, kept |-> None]
    ELSE IF SuitOf(Last(d)) # suit
    THEN [deck |-> ButLast(d), discards |-> shown, kept |-> Last(d)]
    ELSE DrawReplacement(ButLast(d), suit, Append(shown, Last(d)))

replace_same_suit_card(p, suit) ==
    LET temp_cards == IF Card(suit, NINE) \in Range(cards[p])
                      THEN Remove(cards[p], Card(suit, NINE)) ELSE cards[p]
        same_suit_card == IF temp_cards # <<>> THEN temp_cards[1] ELSE None
        drawn == DrawReplacement(deck, suit, <<>>)
    IN  IF same_suit_card = None \/ SuitOf(same_suit_card) # suit
        THEN /\ result' = Fail("replace_same_suit_card", "No same-suit card found to replace")
             /\ UNCHANGED gameVars
        ELSE IF drawn.kept = None
        THEN \* the card and the trumps drawn so far are already discarded
             /\ cards' = [cards EXCEPT ![p] = Remove(@, same_suit_card)]
             /\ discarded_cards' = (discarded_cards \o <<same_suit_card>>) \o drawn.discards
             /\ deck' = drawn.deck
             /\ result' = Fail("replace_same_suit_card", "Deck empty during replacement")
             /\ UNCHANGED <<nplayers, phase, callVars, okaluVars, challengeVars, handVars,
                            ready_players>>
        ELSE /\ cards' = [cards EXCEPT ![p] = Append(Remove(@, same_suit_card), drawn.kept)]
             /\ discarded_cards' = (discarded_cards \o <<same_suit_card>>) \o drawn.discards
             /\ deck' = drawn.deck
             /\ base_okalu' = calculate_base_okalu(p, dealer_index)
             /\ current_game_okalu' = calculate_base_okalu(p, dealer_index)
             /\ phase' = STAGE1_CHALLENGING
             /\ result' = Ok("replace_same_suit_card", "final_card")
             /\ UNCHANGED <<nplayers, callVars, team_okalu, challengeVars, handVars,
                            ready_players>>

\* finalize_trump_call_selection(p, suit, {"rank": rank, ...})
finalize_trump_call_selection(p, suit, rank) ==
    LET others == Matching(cards[p], suit, rank)
        other_card == IF others # <<>> THEN others[1] ELSE None
        drawn == DrawReplacement(deck, suit, <<>>)
    IN  IF other_card = None
        THEN /\ result' = Fail("finalize_trump_call_selection", "Could not identify card to replace")
             /\ UNCHANGED gameVars
        ELSE IF drawn.kept = None
        THEN \* self.deck.pop() on the empty deck raises IndexError
             /\ cards' = [cards EXCEPT ![p] = Remove(@, other_card)]
             /\ discarded_cards' = (discarded_cards \o <<other_card>>) \o drawn.discards
             /\ deck' = drawn.deck
             /\ result' = Raise("finalize_trump_call_selection", "IndexError")
             /\ UNCHANGED <<nplayers, phase, callVars, okaluVars, challengeVars, handVars,
                            ready_players>>
        ELSE /\ cards' = [cards EXCEPT ![p] = Append(Remove(@, other_card), drawn.kept)]
             /\ discarded_cards' = (discarded_cards \o <<other_card>>) \o drawn.discards
             /\ deck' = drawn.deck
             /\ trump_suit' = suit
             /\ trump_caller_index' = p
             /\ base_okalu' = calculate_base_okalu(p, dealer_index)
             /\ current_game_okalu' = calculate_base_okalu(p, dealer_index)
             /\ phase' = STAGE1_CHALLENGING
             /\ result' = Ok("finalize_trump_call_selection", "final_card")
             /\ UNCHANGED <<nplayers, dealer_index, joint_called, joint_caller_index,
                            stage1_round, trump_calling_index, team_okalu, challengeVars,
                            handVars, ready_players>>

\* a faulty escalation: "+= 2" for "*= 2"
raised_by_two(multiplier) == multiplier + 2

\* self.challenge_multiplier *= 2
doubled(multiplier) == multiplier * 2

\* a faulty back-and-forth validation: nobody ever has to wait
never_waits(last_challenger, player_team) == FALSE

\* "if self.last_challenger_team == player_team": the seat's team issued the last
\* challenge and has to wait
must_wait(last_challenger, player_team) == last_challenger = player_team

attempt_challenge(p, challenge_word) ==
    LET player_team == Team(p)
        initial_team == Team(trump_caller_index)
    IN  IF trump_caller_index = None
        THEN \* self.players[None] raises TypeError
             /\ result' = Raise("attempt_challenge", "TypeError")
             /\ UNCHANGED gameVars
        ELSE IF must_wait(last_challenger_team, player_team)
        THEN /\ result' = Fail("attempt_challenge", "Wait for the other team to respond.")
             /\ UNCHANGED gameVars
        ELSE IF challenge_multiplier = 1 /\ player_team = initial_team
        THEN /\ result' = Fail("attempt_challenge", "Opponents must initiate Adu.")
             /\ UNCHANGED gameVars
        ELSE IF challenge_multiplier = 1 /\ challenge_word # "adu"
        THEN /\ result' = Fail("attempt_challenge", "First challenge must be 'adu'.")
             /\ UNCHANGED gameVars
        ELSE IF challenge_multiplier = 2 /\ challenge_word # "shertu"
        THEN /\ result' = Fail("attempt_challenge", "Second challenge must be 'shertu'.")
             /\ UNCHANGED gameVars
        ELSE /\ challenge_multiplier' = doubled(challenge_multiplier)
             /\ current_game_okalu' = base_okalu * doubled(challenge_multiplier)
             /\ last_challenger_team' = player_team
             /\ challenge_type' = challenge_word
             /\ ready_players' = <<>>
             /\ result' = Ok("attempt_challenge", "current_okalu")
             /\ UNCHANGED <<tableVars, phase, callVars, team_okalu, base_okalu,
                            pending_challenge, handVars>>

respond_to_challenge(team, response) ==
    IF ~pending_challenge
    THEN /\ result' = Fail("respond_to_challenge", "No pending challenge")
         /\ UNCHANGED gameVars
    ELSE IF team = last_challenger_team
    THEN /\ result' = Fail("respond_to_challenge", "Cannot respond to own challenge")
         /\ UNCHANGED gameVars
    ELSE IF response = "fold"
    THEN /\ team_okalu' = [team_okalu EXCEPT
                              ![team] = @ + base_okalu * (challenge_multiplier \div 2)]
         /\ phase' = GAME_OVER
         /\ result' = Ok("respond_to_challenge", "folded")
         /\ UNCHANGED <<tableVars, callVars, current_game_okalu, base_okalu,
                        challengeVars, handVars, ready_players>>
    ELSE IF response = "accept"
    THEN /\ pending_challenge' = FALSE
         /\ challenge_type' = "none"
         /\ result' = Ok("respond_to_challenge", "accepted")
         /\ UNCHANGED <<tableVars, phase, callVars, okaluVars, challenge_multiplier,
                        last_challenger_team, handVars, ready_players>>
    ELSE /\ result' = Fail("respond_to_challenge", "Invalid response")
         /\ UNCHANGED gameVars

proceed_to_stage2 ==
    IF phase # STAGE1_CHALLENGING
    THEN /\ result' = Fail("proceed_to_stage2", "Not ready for stage 2")
         /\ UNCHANGED gameVars
    ELSE /\ phase' = STAGE2_CHALLENGING
         /\ current_player_index' = (dealer_index + 1) % 6
         /\ result' = Ok("proceed_to_stage2", "")
         /\ UNCHANGED <<tableVars, callVars, okaluVars, challengeVars,
                        current_hand_number, current_hand_cards, leading_suit, hands_won,
                        points_scored, jack_trump_team, ready_players>>

\* toggle_ready_stage2 returns True (proceeded) or False (still waiting)
toggle_ready_stage2(player_id) ==
    LET ready == IF player_id \in Range(ready_players) THEN ready_players
                 ELSE Append(ready_players, player_id)
        dealt == deal_stage2_cards(deck, cards, dealer_index)
    IN  IF Len(ready) # 6
        THEN /\ ready_players' = ready
             /\ result' = Ok("toggle_ready_stage2", "False")
             /\ UNCHANGED <<tableVars, phase, callVars, okaluVars, challengeVars, handVars>>
        ELSE IF dealer_index = None
        THEN \* (None + i) % 6 in _deal_stage2 raises TypeError
             /\ ready_players' = ready
             /\ result' = Raise("toggle_ready_stage2", "TypeError")
             /\ UNCHANGED <<tableVars, phase, callVars, okaluVars, challengeVars, handVars>>
        ELSE /\ deck' = dealt.deck
             /\ cards' = dealt.cards
             /\ jack_trump_team' = identify_jack_trump_team(trump_suit, jack_trump_team, dealt.cards)
             /\ phase' = STAGE2_CHALLENGING
             /\ ready_players' = <<>>
             /\ result' = Ok("toggle_ready_stage2", "True")
             /\ UNCHANGED <<nplayers, discarded_cards, callVars, okaluVars, challengeVars,
                            current_player_index, current_hand_number, current_hand_cards,
                            leading_suit, hands_won, points_scored>>

select_trump_after_joint(p, suit) ==
    IF phase # STAGE2_TRUMP_SELECTION
    THEN /\ result' = Fail("select_trump_after_joint", "Not in trump selection phase")
         /\ UNCHANGED gameVars
    ELSE IF p # joint_caller_index
    THEN /\ result' = Fail("select_trump_after_joint", "Only joint caller can select trump")
         /\ UNCHANGED gameVars
    ELSE IF Card(suit, NINE) \notin Range(cards[p])
    THEN /\ result' = Fail("select_trump_after_joint", "Must select a suit you have a 9 in")
         /\ UNCHANGED gameVars
    ELSE /\ trump_suit' = suit
         /\ jack_trump_team' = identify_jack_trump_team(suit, jack_trump_team, cards)
         /\ phase' = STAGE2_CHALLENGING
         /\ current_player_index' = (dealer_index + 1) % 6
         /\ result' = Ok("select_trump_after_joint", "trump_suit")
         /\ UNCHANGED <<tableVars, dealer_index, trump_caller_index, joint_called,
                        joint_caller_index, stage1_round, trump_calling_index, okaluVars,
                        challengeVars, current_hand_number, current_hand_cards,
                        leading_suit, hands_won, points_scored, ready_players>>

\* a faulty _end_game: the ledger is settled and the hand is played on
end_game_plays_on(winning_team, trick, points, won) ==
    /\ team_okalu' = end_game_okalu(team_okalu, current_game_okalu, winning_team)
    /\ phase' = PLAYING_HAND
    /\ points_scored' = points
    /\ hands_won' = won
    /\ current_hand_cards' = trick
    /\ result' = Ok("play_card", "game_over")
    /\ UNCHANGED <<current_player_index, current_hand_number, leading_suit>>

\* _end_game(winning_team), reached from _complete_hand with the trick still on the table
end_game(winning_team, trick, points, won) ==
    /\ team_okalu' = end_game_okalu(team_okalu, current_game_okalu, winning_team)
    /\ phase' = GAME_OVER
    /\ points_scored' = points
    /\ hands_won' = won
    /\ current_hand_cards' = trick
    /\ result' = Ok("play_card", "game_over")
    /\ UNCHANGED <<current_player_index, current_hand_number, leading_suit>>

\* a faulty early end: the points of the jack team are looked at
early_end_on_jack_team(non_jack_team, points) ==
    non_jack_team # None /\ points[1 - non_jack_team] >= 47

\* _complete_hand, "Check for early game end": the team without the trump jack
\* has reached 47 points
early_end(non_jack_team, points) ==
    non_jack_team # None /\ points[non_jack_team] >= 47

\* a faulty end of round: the jack team must take every point of the round
made_every_point(team, points) == points[team] >= 146

\* _complete_hand, "Game over, check if jack team made 100"
made_hundred(team, points) == points[team] >= 100

\* _complete_hand, for the six (or more) plays in trick; ph is the phase play_card left
complete_hand(trick, ph) ==
    LET winner_index == determine_hand_winner(trick, leading_suit, trump_suit)
        winner_team == Team(winner_index)
        hand_points == TrickPoints(trick, trump_suit)
                       + (IF current_hand_number = 3 THEN 5 ELSE 0)
        points == [points_scored EXCEPT ![winner_team] = @ + hand_points]
        won == [hands_won EXCEPT ![winner_team] = @ + 1]
        non_jack_team == IF jack_trump_team # None THEN 1 - jack_trump_team ELSE None
    IN  IF winner_index = None
        THEN \* max() of an empty list raises ValueError
             /\ current_hand_cards' = trick
             /\ phase' = ph
             /\ result' = Raise("play_card", "ValueError")
             /\ UNCHANGED <<team_okalu, points_scored, hands_won, current_player_index,
                            current_hand_number, leading_suit>>
        ELSE IF early_end(non_jack_team, points)
        THEN end_game(non_jack_team, trick, points, won)
        ELSE IF current_hand_number = 3 /\ jack_trump_team # None
        THEN IF made_hundred(jack_trump_team, points)
             THEN end_game(jack_trump_team, trick, points, won)
             ELSE end_game(non_jack_team, trick, points, won)
        ELSE /\ points_scored' = points
             /\ hands_won' = won
             /\ current_hand_number' = current_hand_number + 1
             /\ current_hand_cards' = <<>>
             /\ leading_suit' = None
             /\ current_player_index' = winner_index
             /\ phase' = ph
             /\ result' = Ok("play_card", "hand_complete")
             /\ UNCHANGED team_okalu

\* play_card(p, card_index), card_index 0-based
play_card(p, card_index) ==
    LET card == cards[p][card_index + 1]
        trick == Append(current_hand_cards, <<p, card>>)
    IN  IF phase \notin {PLAYING_HAND, STAGE2_CHALLENGING}
        THEN /\ result' = Fail("play_card", "Not in playing phase")
             /\ UNCHANGED gameVars
        ELSE IF pending_challenge
        THEN /\ result' = Fail("play_card", "Challenge pending, cannot play")
             /\ UNCHANGED gameVars
        ELSE IF p # current_player_index
        THEN /\ result' = Fail("play_card", "Not your turn")
             /\ UNCHANGED gameVars
        ELSE IF card_index >= Len(cards[p])
        THEN /\ result' = Fail("play_card", "Invalid card")
             /\ UNCHANGED gameVars
        ELSE IF ~validate_card_play(cards[p], card, current_hand_cards, leading_suit, trump_suit)
        THEN /\ result' = Fail("play_card", "IllegalPlay")
             /\ UNCHANGED gameVars
        ELSE /\ cards' = [cards EXCEPT ![p] = RemoveAt(@, card_index + 1)]
             /\ UNCHANGED <<nplayers, deck, discarded_cards, callVars, current_game_okalu,
                            base_okalu, challengeVars, jack_trump_team, ready_players>>
             /\ IF Len(trick) = 6
                THEN complete_hand(trick, phase)
                ELSE /\ current_hand_cards' = trick
                     /\ leading_suit' = IF Len(trick) = 1 THEN SuitOf(card) ELSE leading_suit
                     /\ phase' = IF Len(trick) = 1 THEN PLAYING_HAND ELSE phase
                     /\ current_player_index' = (current_player_index + 1) % 6
                     /\ result' = Ok("play_card", "card_played")
                     /\ UNCHANGED <<team_okalu, hands_won, points_scored, current_hand_number>>

\* a faulty projection: the hands of the viewer's team are shown
shows_cards_of_team(is_dev_game, id, player_id) ==
    is_dev_game \/ (player_id # None /\ id % 2 = player_id % 2)

\* get_game_state, "If in Developer Mode, or if the client is the active player,
\* expose cards"; the id of a player is the number of its seat
shows_cards(is_dev_game, id, player_id) == is_dev_game \/ id = player_id

\* get_game_state(player_id) of a game created with is_dev_game, the hands being
\* hands; the constant fields game_code, name and connected are left out
get_game_state(player_id, is_dev_game, hands) ==
    LET player_data(p) ==
            IF shows_cards(is_dev_game, p, player_id)
            THEN [id |-> p, team |-> Team(p), card_count |-> Len(hands[p]),
                  cards |-> hands[p]]
            ELSE [id |-> p, team |-> Team(p), card_count |-> Len(hands[p])]
        state ==
            [phase |-> phase,
             ready_players |-> ready_players,
             players |-> [p \in 0 .. (nplayers - 1) |-> player_data(p)],
             dealer_index |-> dealer_index,
             current_player_index |-> current_player_index,
             trump_suit |-> trump_suit,
             trump_caller_index |-> trump_caller_index,
             team_okalu |-> team_okalu,
             current_game_okalu |-> current_game_okalu,
             current_hand_number |-> current_hand_number,
             current_hand_cards |-> current_hand_cards,
             leading_suit |-> leading_suit,
             points_scored |-> points_scored,
             hands_won |-> hands_won,
             pending_challenge |-> pending_challenge,
             challenge_type |-> challenge_type,
             last_challenger_team |-> last_challenger_team,
             trump_calling_index |-> trump_calling_index,
             joint_called |-> joint_called,
             joint_caller_index |-> joint_caller_index]
    IN  IF player_id \in 0 .. (nplayers - 1)
        THEN state @@ [my_cards |-> hands[player_id], my_team |-> Team(player_id)]
        ELSE state

\* ---------------------------------------------------------------- environment
\* The callers of the engine.  The engine itself checks little: most methods run
\* in any phase and for any seat.  A call is expected when the game, as the server
\* drives it, asks for it: the right phase and the right seat.  A call is a stray
\* when it is not expected, when it raises, or when it fails after having moved
\* cards.  One run of the system stays within the limits of one profile.
RECURSIVE Pow2(_)
Pow2(n) == IF n = 0 THEN 1 ELSE 2 * Pow2(n - 1)

Words == {"adu", "shertu", "double"}
Responses == {"accept", "fold"}

\* The outcomes of random taken into account: a dealer and the deck as
\* random.shuffle leaves it (the last card is the top of the deck).
Deals ==
    { [dealer |-> 0, deck |-> <<1, 6, 11, 8, 10, 7, 4, 17, 2, 5, 21, 23,
                                13, 19, 9, 0, 14, 15, 3, 22, 12, 18, 16, 20>>],
      [dealer |-> 1, deck |-> <<17, 7, 20, 6, 14, 1, 23, 19, 10, 11, 15, 8,
                                2, 21, 4, 3, 13, 22, 9, 12, 0, 18, 5, 16>>],
      [dealer |-> 2, deck |-> <<8, 3, 6, 12, 2, 13, 9, 7, 17, 21, 20, 19,
                                11, 5, 22, 15, 0, 1, 23, 18, 16, 10, 14, 4>>],
      [dealer |-> 3, deck |-> <<7, 4, 8, 22, 5, 0, 21, 6, 11, 15, 9, 20,
                                17, 14, 16, 23, 1, 13, 2, 3, 19, 18, 12, 10>>],
      [dealer |-> 4, deck |-> <<7, 20, 16, 8, 22, 3, 23, 21, 0, 13, 15, 6,
                                11, 10, 18, 9, 4, 5, 12, 1, 14, 2, 17, 19>>],
      [dealer |-> 5, deck |-> <<0, 9, 18, 21, 19, 4, 13, 20, 5, 2, 7, 8,
                                22, 23, 14, 15, 17, 3, 11, 16, 10, 6, 1, 12>>],
      \* the second deck again, dealt one seat further on: a round the dealer's
      \* team can win, whatever the stake
      [dealer |-> 2, deck |-> <<17, 7, 20, 6, 14, 1, 23, 19, 10, 11, 15, 8,
                                2, 21, 4, 3, 13, 22, 9, 12, 0, 18, 5, 16>>] }

\* handle_join_game reads the request: no developer-mode player named, one
\* that is seated in the game, one that is not
DevRequests == {"none", "found", "missing"}

\* the hands after add_player has appended the seats first .. last
seats_added(hands, first, last) ==
    [p \in Seats |-> IF p >= first /\ p <= last THEN <<>> ELSE hands[p]]

\* handle_join_game: a join_game request for a game that is found or not
handle_join_game(game_found, dev_request) ==
    LET generated == dev_request = "none"       \* the branch that generates an id
        seated == IF generated THEN nplayers + 1 ELSE nplayers
    IN  IF ~game_found
        THEN /\ result' = Fail("join_game", "Game not found")
             /\ UNCHANGED gameVars
        ELSE IF dev_request = "missing"
        THEN /\ result' = Fail("join_game", "Dev player not found")
             /\ UNCHANGED gameVars
        ELSE IF generated /\ nplayers >= 6
        THEN /\ result' = Fail("join_game", "Game is full")
             /\ UNCHANGED gameVars
        ELSE IF seated >= 6
        THEN /\ nplayers' = seated
             /\ cards' = seats_added(cards, nplayers, seated - 1)
             /\ result' = Fail("join_game", "Game is full")
             /\ UNCHANGED <<deck, discarded_cards, phase, callVars, okaluVars,
                            challengeVars, handVars, ready_players>>
        ELSE /\ nplayers' = seated + 1
             /\ cards' = seats_added(cards, nplayers, seated)
             /\ result' = Ok("join_game", "join_success")
             /\ UNCHANGED <<deck, discarded_cards, phase, callVars, okaluVars,
                            challengeVars, handVars, ready_players>>

Seated == 0 .. (nplayers - 1)

\* the next player to signal readiness, and the ones who already did
ReadyCallers ==
    {p \in Seated : p \in Range(ready_players) \/ p = Len(ready_players)}

InStage1Calling == phase = STAGE1_TRUMP_CALLING
\* attempt_challenge reads the team of the seat only: one challenger a team
Challengers == {p \in Seated : p \in Teams}

InPlay == phase \in {STAGE2_CHALLENGING, PLAYING_HAND, GAME_OVER}
InChallenging == phase \in {STAGE1_CHALLENGING, STAGE2_CHALLENGING, PLAYING_HAND}

\* A call: one run of a handler.
Call(expected, handler) ==
    /\ expected \/ strays < limits.strays
    /\ handler
    /\ strays' = IF ~expected \/ result'.raised
                    \/ (~result'.success /\ tableVars' # tableVars)
                 THEN strays + 1 ELSE strays
    /\ strays' <= limits.strays
    /\ settlements' = IF result'.op = "start_game" /\ result'.success THEN 0
                      ELSE IF team_okalu' # team_okalu THEN settlements + 1
                      ELSE settlements
    /\ UNCHANGED limits

AddPlayer == Call(phase = WAITING, add_player) /\ UNCHANGED rounds

JoinGame ==
    /\ \E game_found \in BOOLEAN, dev_request \in DevRequests :
          /\ dev_request = "found" => nplayers > 0
          /\ Call(phase = WAITING, handle_join_game(game_found, dev_request))
    /\ UNCHANGED rounds

StartGame ==
    /\ rounds < limits.rounds
    /\ \E deal \in Deals :
          Call(phase \in {WAITING, GAME_OVER}, start_game(deal.dealer, deal.deck))
    /\ rounds' = IF result'.success THEN rounds + 1 ELSE rounds

AttemptTrumpCall ==
    /\ \E p \in Seated, suit \in Suits :
          Call(InStage1Calling /\ p = trump_calling_index, attempt_trump_call(p, suit))
    /\ UNCHANGED rounds

AttemptJointCall ==
    /\ \E p \in Seated :
          Call(InStage1Calling /\ p = trump_calling_index, attempt_joint_call(p))
    /\ UNCHANGED rounds

PassTrumpCall ==
    /\ \E p \in Seated :
          Call(InStage1Calling /\ p = trump_calling_index, pass_trump_call(p))
    /\ UNCHANGED rounds

ReplaceSameSuitCard ==
    /\ \E p \in Seated, suit \in Suits :
          Call(InStage1Calling /\ p = trump_calling_index, replace_same_suit_card(p, suit))
    /\ UNCHANGED rounds

FinalizeTrumpCallSelection ==
    /\ \E p \in Seated, suit \in Suits : \E c \in Range(cards[p]) :
          Call(InStage1Calling /\ p = trump_calling_index,
               finalize_trump_call_selection(p, suit, RankOf(c)))
    /\ UNCHANGED rounds

AttemptChallenge ==
    /\ challenge_multiplier < Pow2(limits.challenges)
    /\ \E p \in Challengers, w \in Words : Call(InChallenging, attempt_challenge(p, w))
    /\ UNCHANGED rounds

RespondToChallenge ==
    /\ \E team \in Teams, response \in Responses :
          Call(InChallenging /\ challenge_type # "none",
               respond_to_challenge(team, response))
    /\ UNCHANGED rounds

\* the server never calls proceed_to_stage2
ProceedToStage2 == Call(FALSE, proceed_to_stage2) /\ UNCHANGED rounds

ToggleReadyStage2 ==
    /\ \E p \in ReadyCallers :
          Call(phase = STAGE1_CHALLENGING \/ (limits.late_ready /\ InPlay),
               toggle_ready_stage2(p))
    /\ UNCHANGED rounds

SelectTrumpAfterJoint ==
    /\ \E p \in Seated, suit \in Suits :
          Call(phase = STAGE2_TRUMP_SELECTION /\ p = joint_caller_index,
               select_trump_after_joint(p, suit))
    /\ UNCHANGED rounds

PlayCard ==
    /\ \E p \in Seated, card_index \in 0 .. MaxCardIndex :
          Call(phase \in {STAGE2_CHALLENGING, PLAYING_HAND} /\ p = current_player_index,
               play_card(p, card_index))
    /\ UNCHANGED rounds

Next ==
    \/ AddPlayer
    \/ JoinGame
    \/ StartGame
    \/ AttemptTrumpCall
    \/ AttemptJointCall
    \/ PassTrumpCall
    \/ ReplaceSameSuitCard
    \/ FinalizeTrumpCallSelection
    \/ AttemptChallenge
    \/ RespondToChallenge
    \/ ProceedToStage2
    \/ ToggleReadyStage2
    \/ SelectTrumpAfterJoint
    \/ PlayCard

Spec == Init /\ [][Next]_vars

\* ---------------------------------------------------------------- card conservation
\* the cards in the deck, in the six hands and on the discard pile
CardsInPiles == Len(deck) + Len(AllHands(cards)) + Len(discarded_cards)

LegalOperation(p) ==
    /\ \/ /\ phase = STAGE1_TRUMP_CALLING
          /\ p = trump_calling_index
          /\ \/ \E suit \in Suits : attempt_trump_call(p, suit)
             \/ \E suit \in Suits : replace_same_suit_card(p, suit)
             \/ \E suit \in Suits, rank \in Ranks : finalize_trump_call_selection(p, suit, rank)
             \/ attempt_joint_call(p)
             \/ pass_trump_call(p)
       \/ /\ phase = STAGE1_CHALLENGING
          /\ toggle_ready_stage2(p)
       \/ /\ phase = STAGE2_TRUMP_SELECTION
          /\ \E suit \in Suits : select_trump_after_joint(p, suit)
       \/ /\ phase \in {STAGE2_CHALLENGING, PLAYING_HAND}
          /\ \E card_index \in 0 .. 3 : play_card(p, card_index)
    /\ result'.success \/ phase' = GAME_OVER

\* C2, in the form a finite run decides: a round that was started and is not over
\* always offers some seat an operation of the current phase, so that a round in
\* which such operations keep being taken cannot stop short of GAME_OVER.
C2_RoundCanGoOn ==
    (rounds > 0 /\ phase # GAME_OVER) => ENABLED (\E p \in Seats : LegalOperation(p))

\* ---------------------------------------------------------------- order of the phases
\* WAITING < STAGE1_TRUMP_CALLING < {STAGE1_CHALLENGING, STAGE2_TRUMP_SELECTION}
\*         < STAGE2_CHALLENGING < PLAYING_HAND < GAME_OVER
PhaseRank(ph) ==
    CASE ph = WAITING -> 0
      [] ph = STAGE1_TRUMP_CALLING -> 1
      [] ph \in {STAGE1_CHALLENGING, STAGE2_TRUMP_SELECTION} -> 2
      [] ph = STAGE2_CHALLENGING -> 3
      [] ph = PLAYING_HAND -> 4
      [] ph = GAME_OVER -> 5

\* C3: no call other than start_game takes the game from a later phase to an
\* earlier one.
C3_PhaseNeverGoesBack ==
    [][result'.op # "start_game" => PhaseRank(phase') >= PhaseRank(phase)]_vars

\* ---------------------------------------------------------------- challenges
\* the state a successful attempt_challenge leaves
ChallengeJustIssued == result.op = "attempt_challenge" /\ result.success

\* a challenge was issued in the round and none was accepted since: challenge_type
\* is set by attempt_challenge and cleared by an accepting respond_to_challenge
\* and by start_game only
ChallengeOpen == challenge_type # "none"

\* C4: right after a successful challenge the other team can fold; the fold
\* succeeds, charges base_okalu * (multiplier / 2) to the folding team and ends the
\* round in GAME_OVER.
C4_FoldSettlesRound ==
    [][\A team \in Teams :
          (/\ ChallengeJustIssued
           /\ team # last_challenger_team
           /\ respond_to_challenge(team, "fold"))
          => /\ result'.success
             /\ team_okalu'[team]
                    = team_okalu[team] + base_okalu * (challenge_multiplier \div 2)
             /\ phase' = GAME_OVER]_vars

\* C5: while a challenge is open every play_card is rejected and leaves the hands
\* as they are.
C5_NoPlayWhileChallengeOpen ==
    [][\A p \in Seats, card_index \in 0 .. 3 :
          (ChallengeOpen /\ play_card(p, card_index))
          => (~result'.success /\ cards' = cards)]_vars

\* ---------------------------------------------------------------- faults
\* C6: no call raises; every failure comes back as a returned value.
C6_NoCallRaises == ~result.raised

\* ---------------------------------------------------------------- calling turn
\* C7: attempt_trump_call by a seat whose calling turn it is not is rejected and
\* leaves the trump suit, the trump caller, the stake and the phase as they are;
\* stated for the call that needs no card choice, the seat holding one card of
\* the suit.
C7_CallOutOfTurnRejected ==
    [][\A p \in Seats, suit \in Suits :
          (/\ phase = STAGE1_TRUMP_CALLING
           /\ p # trump_calling_index
           /\ Len(Matching(cards[p], suit, None)) = 1
           /\ attempt_trump_call(p, suit))
          => /\ ~result'.success
             /\ UNCHANGED <<trump_suit, trump_caller_index, base_okalu,
                            current_game_okalu, phase>>]_vars

\* ---------------------------------------------------------------- stage-2 deal
\* a step that deals stage 2 out of stage 1: the sixth ready signal after a trump
\* call, or a joint call
Stage2Deal ==
    /\ phase \in {STAGE1_TRUMP_CALLING, STAGE1_CHALLENGING}
    /\ \/ result'.op = "toggle_ready_stage2" /\ result'.message = "True"
       \/ result'.op = "attempt_joint_call" /\ result'.success

\* C8: in a round without a stage-1 reshuffle every seat holds exactly 4 cards
\* once stage 2 is dealt, whether the trump call was plain, went through the
\* card choice and its replacement, or was a joint call.
C8_FourCardsAfterStage2Deal ==
    [][(/\ stage1_round = 1
        /\ \A p \in Seats : Len(cards[p]) = 2
        /\ Stage2Deal)
       => \A p \in Seats : Len(cards'[p]) = 4]_vars

\* ---------------------------------------------------------------- stake
IsPowerOfTwo(n) == \E k \in 0 .. 16 : n = Pow2(k)

\* the phases of a round between the trump or joint call and the end of play
CallMade ==
    phase \in {STAGE1_CHALLENGING, STAGE2_TRUMP_SELECTION, STAGE2_CHALLENGING,
               PLAYING_HAND}

\* C9: once the trump call or joint call of a round is made, the multiplier is a
\* power of two and current_game_okalu = base_okalu * challenge_multiplier, in the
\* first round of a session and in every later one.
C9_StakeIsBaseTimesMultiplier ==
    (rounds > 0 /\ CallMade) =>
        /\ IsPowerOfTwo(challenge_multiplier)
        /\ current_game_okalu = base_okalu * challenge_multiplier

\* ---------------------------------------------------------------- alternation
\* a round whose trump was called without a joint: the multiplier starts at 1
PlainCallMade == trump_caller_index # None /\ ~joint_called

\* the team of the trump caller, and the team opposing it
TeamA == Team(trump_caller_index)
TeamB == 1 - Team(trump_caller_index)

\* C10, as stated: after the challenges of team B, team A and team B have taken
\* the multiplier from 1 to 8, a challenge by team A fails.
C10_TeamARejectedAfterBAB ==
    [][\A p \in Seats, w \in Words :
          (/\ PlainCallMade
           /\ ChallengeJustIssued
           /\ challenge_multiplier = 8
           /\ last_challenger_team = TeamB
           /\ Team(p) = TeamA
           /\ attempt_challenge(p, w))
          => ~result'.success]_vars

\* C10, amended: in a round with a plain trump call the first challenge, at
\* multiplier 1, is accepted from team B only, and every later one from the team
\* that did not issue the last one only; each accepted challenge doubles the
\* multiplier and sets current_game_okalu = base_okalu * multiplier, so that team
\* B, team A, team B yield multiplier 8 and current_game_okalu = base_okalu * 8.
\* Right after that a challenge by team B fails ("Wait for the other team to
\* respond.") and changes nothing, and one by team A is accepted and makes the
\* multiplier 16.
C10_ChallengesAlternate ==
    [][(PlainCallMade /\ result'.op = "attempt_challenge") =>
       \A p \in Seats, w \in Words :
          attempt_challenge(p, w)
          => /\ result'.success
                => /\ Team(p) = (IF challenge_multiplier = 1 THEN TeamB
                                 ELSE 1 - last_challenger_team)
                   /\ challenge_multiplier' = 2 * challenge_multiplier
                   /\ current_game_okalu' = base_okalu * challenge_multiplier'
                   /\ last_challenger_team' = Team(p)
             /\ (ChallengeJustIssued /\ challenge_multiplier = 8)
                => /\ last_challenger_team = TeamB
                   /\ current_game_okalu = base_okalu * 8
                   /\ IF Team(p) = TeamB
                      THEN /\ result' = Fail("attempt_challenge",
                                             "Wait for the other team to respond.")
                           /\ UNCHANGED gameVars
                      ELSE /\ result'.success
                           /\ challenge_multiplier' = 16]_vars

\* team A's challenge was accepted right after team B, team A, team B
C10_FourthChallengeAccepted ==
    /\ PlainCallMade
    /\ ChallengeJustIssued
    /\ challenge_multiplier = 16
    /\ last_challenger_team = TeamA
    /\ current_game_okalu = base_okalu * 16

\* ---------------------------------------------------------------- alternation, any round
\* C11: a challenge by a seat of the team that issued the last challenge is
\* rejected and changes nothing; last_challenger_team is the team of the last
\* accepted challenge of the round (only an accepted challenge and start_game
\* write it), so of two consecutive accepted challenges of a round the second
\* comes from the other team.
C11_SameTeamChallengeRejected ==
    [][/\ result'.op = "attempt_challenge"
             => \A p \in Seats, w \in Words :
                   attempt_challenge(p, w)
                   => /\ Team(p) = last_challenger_team
                         => (~result'.success /\ UNCHANGED gameVars)
                      /\ result'.success
                         => (last_challenger_team' = Team(p)
                             /\ last_challenger_team # Team(p))
       /\ last_challenger_team' # last_challenger_team
             => \/ result'.op = "attempt_challenge" /\ result'.success
                \/ result'.op = "start_game" /\ last_challenger_team' = None]_vars

\* a team that had just challenged tried again and was told to wait
C11_SecondInARowRejected ==
    /\ result = Fail("attempt_challenge", "Wait for the other team to respond.")
    /\ last_challenger_team \in Teams
    /\ challenge_multiplier > 1

\* ---------------------------------------------------------------- first challenge
\* C12: the first accepted challenge of a round (none was accepted before:
\* last_challenger_team is None) comes from the team opposing the trump caller,
\* in a round with a plain trump call and in a round with a joint call.
C12_FirstChallengeByOpponents ==
    [][(/\ result'.op = "attempt_challenge"
        /\ result'.success
        /\ last_challenger_team = None)
       => last_challenger_team' = 1 - Team(trump_caller_index)]_vars

\* ---------------------------------------------------------------- settlement
\* a step in which play_card completes a trick that ends the round
RoundSettled == result'.op = "play_card" /\ result'.message = "game_over"

\* the team _complete_hand declares the winner, from the points after the trick:
\* the team without the jack of trump with 47 points or more, else the team with
\* the jack if it has 100 or more, else the team without it
WinningTeam ==
    IF points_scored'[1 - jack_trump_team] >= 47 THEN 1 - jack_trump_team
    ELSE IF points_scored'[jack_trump_team] >= 100 THEN jack_trump_team
    ELSE 1 - jack_trump_team

\* C13: when a round ends with winning team W and stake s = current_game_okalu,
\* W's okalu goes down by min(W's okalu, s), the losing team's okalu goes up by s
\* minus that reduction, and the ledger changes in no other way.
C13_WinnersDebtReducedFirst ==
    [][RoundSettled =>
       LET W == WinningTeam
           s == current_game_okalu
           reduction == IF team_okalu[W] < s THEN team_okalu[W] ELSE s
       IN  /\ jack_trump_team \in Teams
           /\ team_okalu'[W] = team_okalu[W] - reduction
           /\ team_okalu'[1 - W] = team_okalu[1 - W] + (s - reduction)
           /\ DOMAIN team_okalu' = Teams]_vars

\* the second round of a session was settled and the winner owed okalu from the
\* first: less than the stake was added to the ledger
C13_DebtReducedAtSettlement ==
    /\ result.op = "play_card" /\ result.message = "game_over"
    /\ rounds >= 2
    /\ team_okalu[0] + team_okalu[1] < current_game_okalu

\* C14: the okalu of both teams is a non-negative integer in every state, in the
\* first round of a session and in the later ones.
C14_OkaluNeverNegative == \A t \in Teams : team_okalu[t] \in Nat

\* a later round was settled for a team in debt: its debt was cut, to zero when
\* the stake covered it
C14_DebtPaidOff ==
    /\ phase = GAME_OVER
    /\ rounds >= 2
    /\ \E t \in Teams : team_okalu[t] = 0 /\ team_okalu[1 - t] > 0
    /\ team_okalu[0] + team_okalu[1] < current_game_okalu

\* C15: team_okalu changes only in a step that takes the phase to GAME_OVER, and
\* at most once between one successful start_game and the next.
C15_LedgerChangesOnceAtGameOver ==
    [][/\ team_okalu' # team_okalu => (phase # GAME_OVER /\ phase' = GAME_OVER)
       /\ settlements' <= 1]_vars

\* a settled round was taken out of GAME_OVER by six ready signals and a card
\* was played after that, without a further settlement
C15_PlayedOnAfterSettlement ==
    /\ settlements = 1
    /\ team_okalu # [t \in Teams |-> 0]
    /\ phase = STAGE2_CHALLENGING
    /\ Len(current_hand_cards) > 6

\* ---------------------------------------------------------------- round fields
\* C16: a successful start_game, the first of a session or a later one, leaves
\* every round field at the value it has after the first start_game of a fresh
\* session (trump suit and caller None, no joint, no active seat, stakes 0,
\* multiplier 1, no last challenger, nothing pending, no trick, no leading suit,
\* no tricks won, no points, no jack-of-trump team, stage-1 round 1, nobody
\* ready) and leaves team_okalu as it was.
C16_StartGameResetsRound ==
    [][(result'.op = "start_game" /\ result'.success)
       => /\ trump_suit' = None
          /\ trump_caller_index' = None
          /\ joint_called' = FALSE
          /\ joint_caller_index' = None
          /\ current_player_index' = None
          /\ base_okalu' = 0
          /\ current_game_okalu' = 0
          /\ challenge_multiplier' = 1
          /\ last_challenger_team' = None
          /\ pending_challenge' = FALSE
          /\ current_hand_cards' = <<>>
          /\ leading_suit' = None
          /\ hands_won' = [t \in Teams |-> 0]
          /\ points_scored' = [t \in Teams |-> 0]
          /\ jack_trump_team' = None
          /\ stage1_round' = 1
          /\ ready_players' = <<>>
          /\ team_okalu' = team_okalu]_vars

\* ---------------------------------------------------------------- stage-1 calling cycle
\* The calling cycle of a round goes from the seat left of the dealer round to the
\* dealer: all six seats have passed in turn when the dealer passes on its turn.
LastPassOfCycle(p, round) ==
    /\ phase = STAGE1_TRUMP_CALLING
    /\ stage1_round = round
    /\ p = dealer_index
    /\ p = trump_calling_index
    /\ pass_trump_call(p)

\* C17: when all six seats have passed again after the reshuffle, the round is
\* aborted: the phase becomes GAME_OVER and the okalu of both teams stays as it is.
C17_SecondExhaustionAborts ==
    [][result'.op = "pass_trump_call"
       => \A p \in Seats :
             LastPassOfCycle(p, 2) => (phase' = GAME_OVER /\ team_okalu' = team_okalu)]_vars

\* the round was aborted after the second cycle of passes
C17_RoundAborted ==
    /\ result = Fail("pass_trump_call", "Game ended prematurely")
    /\ phase = GAME_OVER
    /\ stage1_round = 2
    /\ Len(discarded_cards) = 12

\* C18: when all six seats have passed in turn for the first time in a round, the
\* 12 cards dealt go to the discard pile, every seat gets exactly 2 cards from
\* what was left of the deck, the calling turn is back at (dealer + 1) mod 6, the
\* stage-1 round counter is 2 and the phase is still STAGE1_TRUMP_CALLING.
C18_FirstExhaustionReshuffles ==
    [][result'.op = "pass_trump_call"
       => \A p \in Seats :
             LastPassOfCycle(p, 1)
             => /\ Len(AllHands(cards)) = 12
                /\ Len(discarded_cards') = Len(discarded_cards) + 12
                /\ Range(discarded_cards')
                      = Range(discarded_cards) \cup Range(AllHands(cards))
                /\ \A q \in Seats :
                      /\ Len(cards'[q]) = 2
                      /\ Range(cards'[q]) \subseteq Range(deck)
                /\ Cardinality(Range(AllHands(cards'))) = 12
                /\ Len(deck') = Len(deck) - 12
                /\ Range(deck') = Range(deck) \ Range(AllHands(cards'))
                /\ trump_calling_index' = (dealer_index + 1) % 6
                /\ stage1_round' = 2
                /\ phase' = STAGE1_TRUMP_CALLING]_vars

\* the cards were dealt anew after the first cycle of passes
C18_DealtAnew ==
    /\ result = Ok("pass_trump_call", "reshuffled")
    /\ phase = STAGE1_TRUMP_CALLING
    /\ stage1_round = 2
    /\ Len(discarded_cards) = 12
    /\ \A q \in Seats : Len(cards[q]) = 2

\* ---------------------------------------------------------------- joint call
\* C19: a successful attempt_joint_call, in the first stage-1 round or in the
\* second, sets the joint flag and the joint caller, makes the multiplier 2 and
\* current_game_okalu = base_okalu * 2, leaves every seat with exactly 4 cards and
\* takes the phase to STAGE2_TRUMP_SELECTION.
C19_JointCallDealsFour ==
    [][result'.op = "attempt_joint_call"
       => \A p \in Seats :
             (attempt_joint_call(p) /\ result'.success)
             => /\ phase = STAGE1_TRUMP_CALLING
                /\ p = trump_calling_index
                /\ Len(cards[p]) = 2
                /\ RankOf(cards[p][1]) = RankOf(cards[p][2])
                /\ joint_called'
                /\ joint_caller_index' = p
                /\ trump_caller_index' = p
                /\ current_game_okalu' = base_okalu' * 2
                /\ challenge_multiplier' = 2
                /\ \A q \in Seats : Len(cards'[q]) = 4
                /\ phase' = STAGE2_TRUMP_SELECTION]_vars

\* C20: select_trump_after_joint(p, suit) succeeds only in STAGE2_TRUMP_SELECTION,
\* only for the joint caller and only if that seat holds the 9 of suit.  When it
\* succeeds the trump suit is suit, jack_trump_team is the team of the seat that
\* holds the jack of suit, the phase is STAGE2_CHALLENGING and the active seat is
\* (dealer + 1) mod 6; when it fails nothing changes.
C20_TrumpSelectedAfterJoint ==
    [][result'.op = "select_trump_after_joint"
       => \A p \in Seats, suit \in Suits :
             select_trump_after_joint(p, suit)
             => IF result'.success
                THEN /\ phase = STAGE2_TRUMP_SELECTION
                     /\ p = joint_caller_index
                     /\ Card(suit, NINE) \in Range(cards[p])
                     /\ trump_suit' = suit
                     /\ jack_trump_team' \in Teams
                     /\ \E q \in Seats : /\ Card(suit, JACK) \in Range(cards[q])
                                         /\ jack_trump_team' = Team(q)
                     /\ phase' = STAGE2_CHALLENGING
                     /\ current_player_index' = (dealer_index + 1) % 6
                ELSE UNCHANGED gameVars]_vars

\* ---------------------------------------------------------------- plain trump call
\* C21: attempt_trump_call in the calling phase by the seat on turn, holding
\* exactly one card of the suit, fixes trump_suit = suit and trump_caller_index =
\* seat, sets base_okalu to 6, 5, 4, 3, 4, 5 for (seat - dealer) mod 6 = 0 .. 5,
\* sets current_game_okalu = base_okalu and takes the phase to STAGE1_CHALLENGING.
C21_PlainCallFixesTrump ==
    [][result'.op = "attempt_trump_call"
       => \A p \in Seats, suit \in Suits :
             (/\ phase = STAGE1_TRUMP_CALLING
              /\ p = trump_calling_index
              /\ Cardinality({k \in 1 .. Len(cards[p]) : SuitOf(cards[p][k]) = suit}) = 1
              /\ attempt_trump_call(p, suit))
             => /\ result'.success
                /\ trump_suit' = suit
                /\ trump_caller_index' = p
                /\ base_okalu' = (CASE (p - dealer_index) % 6 = 0 -> 6
                                    [] (p - dealer_index) % 6 = 1 -> 5
                                    [] (p - dealer_index) % 6 = 2 -> 4
                                    [] (p - dealer_index) % 6 = 3 -> 3
                                    [] (p - dealer_index) % 6 = 4 -> 4
                                    [] (p - dealer_index) % 6 = 5 -> 5)
                /\ current_game_okalu' = base_okalu'
                /\ phase' = STAGE1_CHALLENGING]_vars

\* the seat two to the left of the dealer called trump on its turn: base_okalu 4
C21_CalledAtDistanceTwo ==
    /\ result = Ok("attempt_trump_call", "trump_suit")
    /\ phase = STAGE1_CHALLENGING
    /\ trump_caller_index = trump_calling_index
    /\ (trump_caller_index - dealer_index) % 6 = 2
    /\ base_okalu = 4
    /\ current_game_okalu = 4

\* ---------------------------------------------------------------- card choice
\* C22: after a successful finalize_trump_call_selection(seat, suit, chosen card)
\* the caller holds exactly 2 cards, exactly one of them of the trump suit, and
\* that one is the chosen card; the same-suit card not chosen and every card of
\* the suit drawn as a replacement are on the discard pile; the phase is
\* STAGE1_CHALLENGING, trump_suit = suit and trump_caller_index = seat.  The
\* chosen card is given by its rank, one of the ranks in the seat's hand.
C22_ChoiceKeepsChosenCard ==
    [][result'.op = "finalize_trump_call_selection"
       => \A p \in Seats, suit \in Suits :
             \A rank \in {RankOf(c) : c \in Range(cards[p])} :
                (finalize_trump_call_selection(p, suit, rank) /\ result'.success)
                => /\ Len(cards'[p]) = 2
                   /\ {c \in Range(cards'[p]) : SuitOf(c) = suit} = {Card(suit, rank)}
                   /\ \A c \in Range(cards[p]) \cup Range(deck) :
                         (SuitOf(c) = suit /\ c \notin Range(cards'[p]) /\ c \notin Range(deck'))
                         => c \in Range(discarded_cards')
                   /\ \E c \in Range(cards[p]) :
                         /\ SuitOf(c) = suit /\ c # Card(suit, rank)
                         /\ c \in Range(discarded_cards')
                   /\ phase' = STAGE1_CHALLENGING
                   /\ trump_suit' = suit
                   /\ trump_caller_index' = p]_vars


\* ---------------------------------------------------------------- following suit
\* the trump order the rules give, lowest first: 10 < Q < K < A < 9 < J
TrumpOrder == <<TEN, QUEEN, KING, ACE, NINE, JACK>>
Outranks(c, t) == IndexOf(TrumpOrder, RankOf(c)) > IndexOf(TrumpOrder, RankOf(t))

\* the trumps lying in the trick
TrumpsInTrick ==
    {current_hand_cards[i][2] : i \in {j \in 1 .. Len(current_hand_cards) :
                                          SuitOf(current_hand_cards[j][2]) = trump_suit}}

\* c is a trump that strictly outranks every trump already in the trick
BeatsTrumpsInTrick(c) ==
    /\ SuitOf(c) = trump_suit
    /\ \A t \in TrumpsInTrick : Outranks(c, t)

HoldsLeadingSuit(p) == \E c \in Range(cards[p]) : SuitOf(c) = leading_suit
HoldsNonTrump(p) == \E c \in Range(cards[p]) : SuitOf(c) # trump_suit

\* a trick is under way and the next play is open
TrickOpen ==
    /\ phase \in {STAGE2_CHALLENGING, PLAYING_HAND}
    /\ ~pending_challenge
    /\ current_hand_cards # <<>>

\* the verdict of the engine on card c of the active seat
Allowed(c) ==
    validate_card_play(cards[current_player_index], c, current_hand_cards,
                       leading_suit, trump_suit)

\* the play of card_index by p was turned down as illegal, nothing moved
TurnedDown == result' = Fail("play_card", "IllegalPlay") /\ UNCHANGED gameVars
\* the play of card_index by p went through: the card left the hand
WentThrough(p, card_index) ==
    /\ result'.success
    /\ cards' = [cards EXCEPT ![p] = RemoveAt(@, card_index + 1)]

\* C23: a seat that holds a card of the leading suit and plays a card of another
\* suit is turned down with IllegalPlay, unless the card is a trump that strictly
\* outranks every trump already in the trick (10 < Q < K < A < 9 < J); this holds
\* for every card of the active seat's hand and for every play made.
C23_MustFollowOrOvertrump ==
    /\ [](TrickOpen /\ HoldsLeadingSuit(current_player_index)
          => \A c \in Range(cards[current_player_index]) :
                SuitOf(c) # leading_suit => (Allowed(c) <=> BeatsTrumpsInTrick(c)))
    /\ [][result'.op = "play_card"
          => \A p \in Seats, card_index \in 0 .. 3 :
                (/\ TrickOpen /\ p = current_player_index
                 /\ card_index < Len(cards[p])
                 /\ HoldsLeadingSuit(p)
                 /\ SuitOf(cards[p][card_index + 1]) # leading_suit
                 /\ play_card(p, card_index))
                => IF BeatsTrumpsInTrick(cards[p][card_index + 1])
                   THEN WentThrough(p, card_index)
                   ELSE TurnedDown]_vars

\* a seat holding the leading suit was turned down on a trump lower than one in the trick
C23_LowerTrumpTurnedDown ==
    /\ TrickOpen
    /\ result = Fail("play_card", "IllegalPlay")
    /\ HoldsLeadingSuit(current_player_index)
    /\ SuitOf(cards[current_player_index][1]) = trump_suit
    /\ trump_suit # leading_suit
    /\ TrumpsInTrick # {}


\* c is a trump ranking below the highest trump of the trick
BelowTrumpsInTrick(c) ==
    /\ SuitOf(c) = trump_suit
    /\ \E t \in TrumpsInTrick : Outranks(t, c)

\* C24: a seat that holds no card of the leading suit may play any card, except
\* that a trump ranking below the highest trump of the trick is turned down while
\* the hand holds a card that is not a trump; from a hand of trumps only the
\* lower trump is accepted.
C24_VoidPlaysAnythingButLowerTrump ==
    /\ [](TrickOpen /\ ~HoldsLeadingSuit(current_player_index)
          => \A c \in Range(cards[current_player_index]) :
                Allowed(c) <=> ~(BelowTrumpsInTrick(c) /\ HoldsNonTrump(current_player_index)))
    /\ [][result'.op = "play_card"
          => \A p \in Seats, card_index \in 0 .. 3 :
                (/\ TrickOpen /\ p = current_player_index
                 /\ card_index < Len(cards[p])
                 /\ ~HoldsLeadingSuit(p)
                 /\ play_card(p, card_index))
                => IF BelowTrumpsInTrick(cards[p][card_index + 1]) /\ HoldsNonTrump(p)
                   THEN TurnedDown
                   ELSE WentThrough(p, card_index)]_vars

\* a seat void in the leading suit and left with trumps only has played a trump
\* below one already in the trick
C24_LowerTrumpFromTrumpOnlyHand ==
    /\ result.op = "play_card" /\ result.success
    /\ Len(current_hand_cards) >= 2
    /\ LET play == Last(current_hand_cards)
       IN  /\ SuitOf(play[2]) = trump_suit
           /\ trump_suit # leading_suit
           /\ cards[play[1]] # <<>>
           /\ \A c \in Range(cards[play[1]]) : SuitOf(c) = trump_suit
           /\ \E i \in 1 .. (Len(current_hand_cards) - 1) :
                 /\ SuitOf(current_hand_cards[i][2]) = trump_suit
                 /\ Outranks(current_hand_cards[i][2], play[2])


\* ---------------------------------------------------------------- resolving a trick
\* the order of the plain suits, lowest first: 9 < 10 < J < Q < K < A
PlainOrder == <<NINE, TEN, JACK, QUEEN, KING, ACE>>
PlainOutranks(c, t) == IndexOf(PlainOrder, RankOf(c)) > IndexOf(PlainOrder, RankOf(t))

\* the seat that wins the trick under the rules: the highest trump played, and
\* without a trump the highest card of the suit of the first card
TrickWinner(trick, trump) ==
    LET lead == SuitOf(trick[1][2])
        trumps == {i \in 1 .. Len(trick) : SuitOf(trick[i][2]) = trump}
        leads == {i \in 1 .. Len(trick) : SuitOf(trick[i][2]) = lead}
    IN  IF trumps # {}
        THEN trick[CHOOSE i \in trumps :
                      \A j \in trumps \ {i} : Outranks(trick[i][2], trick[j][2])][1]
        ELSE trick[CHOOSE i \in leads :
                      \A j \in leads \ {i} : PlainOutranks(trick[i][2], trick[j][2])][1]

\* the sixth play of a trick is open
SixthPlayOpen == TrickOpen /\ Len(current_hand_cards) = 5

\* C25: when the sixth play resolves a trick, the winner is the seat that played
\* the highest trump of the trick (10 < Q < K < A < 9 < J) if a trump was played,
\* and otherwise the seat that played the highest card of the leading suit
\* (9 < 10 < J < Q < K < A): the engine names that seat for every card the sixth
\* seat may play, the trick is counted for that seat's team, and that seat leads
\* when the round goes on.
C25_HighestTrumpElseHighestLead ==
    /\ [](SixthPlayOpen
          => \A c \in Range(cards[current_player_index]) :
                Allowed(c)
                => LET trick == Append(current_hand_cards, <<current_player_index, c>>)
                   IN  determine_hand_winner(trick, leading_suit, trump_suit)
                          = TrickWinner(trick, trump_suit))
    /\ [][result'.op = "play_card" /\ result'.success
          => \A p \in Seats, card_index \in 0 .. 3 :
                (/\ SixthPlayOpen /\ p = current_player_index
                 /\ card_index < Len(cards[p])
                 /\ play_card(p, card_index))
                => LET trick == Append(current_hand_cards, <<p, cards[p][card_index + 1]>>)
                       w == TrickWinner(trick, trump_suit)
                   IN  /\ hands_won' = [hands_won EXCEPT ![Team(w)] = @ + 1]
                       /\ phase' # GAME_OVER => current_player_index' = w]_vars

\* a round ended on a trick that a trump took from the suit led
C25_TrumpTookTheTrick ==
    /\ phase = GAME_OVER
    /\ result.op = "play_card" /\ result.success
    /\ Len(current_hand_cards) = 6
    /\ trump_suit # SuitOf(current_hand_cards[1][2])
    /\ \E i \in 2 .. 6 :
          /\ SuitOf(current_hand_cards[i][2]) = trump_suit
          /\ TrickWinner(current_hand_cards, trump_suit) = current_hand_cards[i][1]
          /\ hands_won[Team(current_hand_cards[i][1])] >= 1


\* ---------------------------------------------------------------- scoring a trick
\* the values of the cards, by rank 9, 10, J, Q, K, A
TrumpValues == <<14, 10, 20, 2, 3, 11>>
PlainValues == <<0, 10, 1, 2, 3, 11>>
CardValue(c, trump) ==
    IF SuitOf(c) = trump THEN TrumpValues[RankOf(c) + 1] ELSE PlainValues[RankOf(c) + 1]

\* the sum of the values of the six cards of a trick
TrickValue(trick, trump) ==
    CardValue(trick[1][2], trump) + CardValue(trick[2][2], trump)
    + CardValue(trick[3][2], trump) + CardValue(trick[4][2], trump)
    + CardValue(trick[5][2], trump) + CardValue(trick[6][2], trump)

\* the tricks completed so far in the round
TricksDone == hands_won[0] + hands_won[1]

\* C26: when a trick is completed, the points of the winning team grow by the
\* sum of the values of its six cards (trump 9:14, 10:10, J:20, Q:2, K:3, A:11;
\* plain 9:0, 10:10, J:1, Q:2, K:3, A:11), plus 5 exactly when it is the fourth
\* trick; the team's tally grows by 1; points and tally of the other team stay;
\* and if the round goes on the winner is the active seat and leads the next trick.
C26_TrickScoredForWinner ==
    [][result'.op = "play_card" /\ result'.success
       => \A p \in Seats, card_index \in 0 .. 3 :
             (/\ SixthPlayOpen /\ p = current_player_index
              /\ card_index < Len(cards[p])
              /\ play_card(p, card_index))
             => LET trick == Append(current_hand_cards, <<p, cards[p][card_index + 1]>>)
                    w == TrickWinner(trick, trump_suit)
                    gain == TrickValue(trick, trump_suit)
                            + (IF TricksDone = 3 THEN 5 ELSE 0)
                IN  /\ points_scored' = [points_scored EXCEPT ![Team(w)] = @ + gain]
                    /\ hands_won' = [hands_won EXCEPT ![Team(w)] = @ + 1]
                    /\ phase' # GAME_OVER
                       => /\ current_player_index' = w
                          /\ current_hand_cards' = <<>>
                          /\ leading_suit' = None]_vars

\* the fourth trick of a round has been scored with its bonus
C26_FourthTrickScored ==
    /\ phase = GAME_OVER
    /\ result.op = "play_card" /\ result.success
    /\ Len(current_hand_cards) = 6
    /\ TricksDone = 4
    /\ points_scored[Team(TrickWinner(current_hand_cards, trump_suit))]
          >= TrickValue(current_hand_cards, trump_suit) + 5
    /\ \E i \in 1 .. 6 : SuitOf(current_hand_cards[i][2]) = trump_suit


\* ---------------------------------------------------------------- the end of a round
\* the ledger after a round at stake is settled for the team winner: the
\* winner's okalu is paid off first, what is left of the stake goes to the loser
SettledFor(winner, stake) ==
    /\ team_okalu'[winner] = Max(0, team_okalu[winner] - stake)
    /\ team_okalu'[1 - winner] =
          team_okalu[1 - winner] + stake - Min(team_okalu[winner], stake)

\* the last trick of an ended round lies on the table
TrickLeftOnTable == Len(current_hand_cards) >= 6

Viewers == Seated \cup {None}

\* the hands with every card of a seat other than the viewer's replaced by one
\* and the same card: what is left of them is their size
Masked(viewer, hands) ==
    [p \in DOMAIN hands |->
        IF p = viewer THEN hands[p] ELSE [i \in 1 .. Len(hands[p]) |-> 0]]

\* C29: outside debug mode the snapshot returned to a viewer is the same for any
\* two states that differ only in the contents (not the sizes) of the other
\* players' hands, in the deck and in the discard pile: it is the snapshot of
\* the state with the other hands masked, it holds card contents for the
\* viewer's own hand only and, for every other seat, the card count.
C29_SnapshotHidesOtherHands ==
    \A viewer \in Viewers :
       \A snapshot \in {get_game_state(viewer, FALSE, cards)} :
           /\ snapshot = get_game_state(viewer, FALSE, Masked(viewer, cards))
           /\ snapshot.players =
                 [p \in Seated |->
                     IF p = viewer
                     THEN [id |-> p, team |-> Team(p), card_count |-> Len(cards[p]),
                           cards |-> cards[p]]
                     ELSE [id |-> p, team |-> Team(p), card_count |-> Len(cards[p])]]
           /\ viewer \in Seated => snapshot.my_cards = cards[viewer]

\* a viewer holding four cards gets a snapshot while its partner holds four others
C29_SnapshotDuringPlay ==
    /\ phase = STAGE2_CHALLENGING
    /\ Len(cards[0]) = 4 /\ Len(cards[2]) = 4
    /\ get_game_state(0, FALSE, cards).my_cards = cards[0]
    /\ get_game_state(0, FALSE, cards).players[2].card_count = 4
    /\ Masked(0, cards)[2] # cards[2]


\* ---------------------------------------------------------------- the dealer
\* a round can be started: six players are seated and no round is under way
RoundCanStart ==
    /\ nplayers = 6
    /\ phase \in {WAITING, GAME_OVER}
    /\ rounds < limits.rounds

\* the start of a round with seat d as dealer is enabled: the choice of the
\* engine allows d, whatever the shuffle
CanDeal(d) ==
    \E deal \in Deals :
       /\ deal.dealer = d
       /\ d \in DealerChoices(team_okalu)
       /\ Range(deal.deck) = Range(create_deck)

\* C30: after a round is started, if some team has positive okalu the dealer is
\* a seat of a team with positive okalu; if neither team owes, each of the six
\* seats is a possible dealer.
C30_DealerFromOwingTeam ==
    /\ [][(result'.op = "start_game" /\ result'.success)
          => /\ dealer_index' \in Seats
             /\ (\E t \in Teams : team_okalu'[t] > 0)
                => team_okalu'[Team(dealer_index')] > 0]_vars
    /\ []((RoundCanStart /\ \A t \in Teams : team_okalu[t] <= 0)
          => \A d \in Seats : CanDeal(d))

\* a second round has been dealt by a seat of the team that owes
C30_OwingTeamDeals ==
    /\ rounds = 2
    /\ result.op = "start_game" /\ result.success
    /\ phase = STAGE1_TRUMP_CALLING
    /\ team_okalu[Team(dealer_index)] > 0
    /\ team_okalu[1 - Team(dealer_index)] = 0


\* ---------------------------------------------------------------- the start of a round
\* C31: immediately after a successful start of a round every seat holds exactly
\* 2 cards, the deck holds 12 cards, the discard pile is empty, the phase is
\* STAGE1_TRUMP_CALLING and the calling turn is seat (dealer + 1) mod 6; the 24
\* cards of the game are the 12 of the deck and the 12 of the hands.
C31_RoundStartsWithTwoCardsEach ==
    [][(result'.op = "start_game" /\ result'.success)
       => /\ \A p \in Seats : Len(cards'[p]) = 2
          /\ Len(deck') = 12
          /\ discarded_cards' = <<>>
          /\ Range(deck') \cup UNION {Range(cards'[p]) : p \in Seats} = 0 .. 23
          /\ phase' = STAGE1_TRUMP_CALLING
          /\ dealer_index' \in Seats
          /\ trump_calling_index' = (dealer_index' + 1) % 6]_vars

\* a second round was started over the cards left by a round that had been played
C31_SecondRoundStarted ==
    /\ rounds = 2
    /\ result.op = "start_game" /\ result.success
    /\ \A p \in Seats : Len(cards[p]) = 2
    /\ Len(deck) = 12
    /\ team_okalu # [t \in Teams |-> 0]


\* ---------------------------------------------------------------- the active seat
\* C32: whenever the phase is STAGE2_CHALLENGING or PLAYING_HAND, the active
\* seat is defined and lies in 0..5, and so does the dealer, whichever path
\* (plain call with readiness, card choice or replacement, joint call) led there.
C32_ActiveSeatDefinedInPlay ==
    phase \in {STAGE2_CHALLENGING, PLAYING_HAND}
    => /\ current_player_index \in Seats
       /\ dealer_index \in Seats


\* ---------------------------------------------------------------- rejected calls
\* the call was rejected: it failed without raising; the abort of a round by the
\* last pass is an outcome of the call, not a rejection
Rejected ==
    /\ ~result'.success
    /\ ~result'.raised
    /\ result'.message # "Game ended prematurely"

\* C33: a call that is rejected (wrong phase, wrong turn or seat, invalid choice)
\* leaves the entire game state unchanged, so the same caller can retry.
C33_RejectedCallChangesNothing ==
    [][Rejected => UNCHANGED gameVars]_vars


\* ---------------------------------------------------------------- the order of play
\* the seats of the plays of a trick, in the order played
SeatsOfTrick(trick) == [i \in 1 .. Len(trick) |-> trick[i][1]]

\* the plays come from distinct seats, clockwise from the leader
Clockwise(trick) ==
    \A i \in 1 .. Len(trick) : trick[i][1] = (trick[1][1] + i - 1) % 6

\* C34: within a trick a card is accepted only from the active seat; after an
\* accepted play that does not complete the trick the active seat is the next
\* seat clockwise; the cards of a trick come from distinct seats in clockwise
\* order from the leader; and a trick never holds more than six cards.
C34_OneCardPerSeatClockwise ==
    /\ [][(result'.op = "play_card" /\ result'.success)
          => \A p \in Seats, card_index \in 0 .. 3 :
                play_card(p, card_index)
                => /\ p = current_player_index
                   /\ current_hand_cards' # <<>> /\ phase' # GAME_OVER
                      => current_player_index' = (p + 1) % 6]_vars
    /\ [](Len(current_hand_cards) <= 6 /\ Clockwise(current_hand_cards))


\* ---------------------------------------------------------------- the trump of a round
\* C35: whenever the phase is STAGE1_CHALLENGING, STAGE2_CHALLENGING or
\* PLAYING_HAND, the trump suit and the trump caller are both set, whichever
\* operation (plain call, card choice, same-suit replacement, stage-2 deal on
\* readiness) led to that phase.
C35_TrumpSetWhenChallengingOrPlaying ==
    phase \in {STAGE1_CHALLENGING, STAGE2_CHALLENGING, PLAYING_HAND}
    => /\ trump_suit \in Suits
       /\ trump_caller_index \in Seats


\* ---------------------------------------------------------------- the team of the jack
\* The play that completes a trick: the sixth card of the trick goes through.
CompletesTrick ==
    /\ Len(current_hand_cards) = 5
    /\ result'.op = "play_card"
    /\ result'.success

\* C36: whenever a trick is completed the team holding the jack of trumps is
\* determined, also when the jack was discarded or was never dealt, so that the
\* early-end and final-scoring rules can be applied to the completed trick.
C36_JackTeamKnownAtTrickEnd ==
    [][CompletesTrick => jack_trump_team' \in Teams]_vars


\* ---------------------------------------------------------------- no deadlock in trick play
\* the round is under way at the table and no challenge holds the play up
PlayOpen ==
    /\ phase \in {STAGE2_CHALLENGING, PLAYING_HAND}
    /\ ~pending_challenge

\* C37: in every state with phase STAGE2_CHALLENGING or PLAYING_HAND in which no
\* challenge is pending, the active seat holds at least one card whose play the
\* legality rules accept: trick play never deadlocks before the round ends.
C37_ActiveSeatHoldsLegalCard ==
    PlayOpen
    => /\ current_player_index \in Seats
       /\ \E c \in Range(cards[current_player_index]) : Allowed(c)


\* ---------------------------------------------------------------- after a joint call
\* the selection of suit by seat p goes through in the given phase and hands
SelectionSucceeds(p, suit, in_phase, caller, hands) ==
    /\ in_phase = STAGE2_TRUMP_SELECTION
    /\ p = caller
    /\ Card(suit, NINE) \in Range(hands[p])

\* C38: after every successful joint call there is at least one suit for which
\* the selection of trump by the joint caller succeeds, so the game never
\* remains stuck in STAGE2_TRUMP_SELECTION.
C38_JointCallerCanSelect ==
    [][(result'.op = "attempt_joint_call" /\ result'.success)
       => \E suit \in Suits :
             SelectionSucceeds(joint_caller_index', suit, phase',
                               joint_caller_index', cards')]_vars


\* ---------------------------------------------------------------- the team that owes
\* C39: at most one of the two teams has positive okalu in any reachable state
\* of a session, so the team that owes, from which the dealer of the next round
\* is drawn, is never ambiguous.
C39_AtMostOneTeamOwes == ~(team_okalu[0] > 0 /\ team_okalu[1] > 0)

\* the second round of a session was lost by the team that had won the first:
\* the winner's debt was paid off by part of the stake and the rest went to the
\* loser, the only team that owes now
C39_DebtChangedSides ==
    /\ rounds = 2
    /\ phase = GAME_OVER
    /\ settlements = 1
    /\ jack_trump_team \in Teams
    /\ \E t \in Teams :
          /\ team_okalu[t] > 0
          /\ team_okalu[1 - t] = 0
          /\ team_okalu[t] < current_game_okalu
          /\ IF t = jack_trump_team THEN points_scored[1 - t] >= 47
             ELSE points_scored[1 - t] >= 100


\* ---------------------------------------------------------------- joining a game
\* C40: each successful join_game request from one connection adds exactly one
\* seat to the game, and a request for a game with a free seat succeeds, so six
\* distinct connections can join one game and each is told it joined.
C40_JoinAddsOneSeat ==
    [][result'.op = "join_game"
       => /\ result'.success => nplayers' = nplayers + 1
          /\ (nplayers < 6 /\ handle_join_game(TRUE, "none")) => result'.success]_vars

====
